---- MODULE Spec2Model ----
(***************************************************************************)
(* A model of the LinkedIn post generator: the pre-processing cleaner      *)
(* (src/pre_processing.py), the few-shot corpus filter (src/few_shots.py)  *)
(* and the prompt builder (src/post_generator.py).                         *)
(*                                                                         *)
(* Python strings are TLA+ strings; a character is a string of length 1.   *)
(***************************************************************************)
EXTENDS Integers, Sequences, FiniteSets, TLC

VARIABLES
    discovered_tags,   \* LinkedInPostCleaner.discovered_tags (a set of strings)
    tag_synonyms,      \* LinkedInPostCleaner.tag_synonyms (a dict, as a function)
    posts_data,        \* the argument of process_posts
    idx,               \* process_posts: how many posts the loop has visited
    processed_posts,   \* process_posts: the list being collected
    log,               \* the diagnostics printed so far, one entry per print
    final_output,      \* save_results: the document written to the output file
    pc,                \* where the running operation stands
    clean_in,          \* the argument of a clean_text call
    clean_out,         \* the results of clean_text applied once, twice
    df,                \* FewShotPosts.df, the loaded table
    unique_tags,       \* FewShotPosts.unique_tags
    query,             \* the arguments of the last get_filtered_posts / get_prompt
    filtered,          \* the value get_filtered_posts returned
    prompt             \* the value get_prompt returned, as its f-string pieces

vars == <<discovered_tags, tag_synonyms, posts_data, idx, processed_posts, log,
          final_output, pc,
          clean_in, clean_out, df, unique_tags, query, filtered, prompt>>

cleaner_vars == <<discovered_tags, tag_synonyms, posts_data, idx, processed_posts, log,
                  final_output>>
text_vars == <<clean_in, clean_out>>
fewshot_vars == <<df, unique_tags, query, filtered, prompt>>

----------------------------------------------------------------------------
(* Bounds of the model *)

\* longest raw text given to clean_text
MaxLen == 6
\* longest batch given to process_posts
MaxPosts == 3
\* largest corpus loaded by FewShotPosts
MaxCorpus == 3

----------------------------------------------------------------------------
(* Python's str operations *)

Char(s, i) == SubSeq(s, i, i)

Range(f) == {f[i] : i \in DOMAIN f}

\* the ASCII characters str.strip() and str.split() treat as whitespace
IsSpace(c) == c \in {" ", "\t", "\n", "\r"}

UpperChars == "ABCDEFGHIJKLMNOPQRSTUVWXYZ"
LowerChars == "abcdefghijklmnopqrstuvwxyz"

IsUpper(c) == \E i \in 1..26 : Char(UpperChars, i) = c
IsLower(c) == \E i \in 1..26 : Char(LowerChars, i) = c
IsAlpha(c) == IsUpper(c) \/ IsLower(c)

ToLower(c) == IF IsUpper(c) THEN Char(LowerChars, CHOOSE i \in 1..26 : Char(UpperChars, i) = c) ELSE c
ToUpper(c) == IF IsLower(c) THEN Char(UpperChars, CHOOSE i \in 1..26 : Char(LowerChars, i) = c) ELSE c

LowerAt(s, i) == ToLower(Char(s, i))

RECURSIVE LowerFrom(_, _)
\* the characters of s from position k on, each lowered
LowerFrom(s, k) ==
    IF k > Len(s) THEN "" ELSE LowerAt(s, k) \o LowerFrom(s, k + 1)

\* str.lower()
Lower(s) == LowerFrom(s, 1)

\* str.title(): a letter that follows a letter is lowered, any other letter is raised
TitleAt(s, i) ==
    IF i > 1 /\ IsAlpha(Char(s, i - 1)) THEN ToLower(Char(s, i)) ELSE ToUpper(Char(s, i))

RECURSIVE TitleFrom(_, _)
\* the characters of s from position k on, each cased by its predecessor in s
TitleFrom(s, k) ==
    IF k > Len(s) THEN "" ELSE TitleAt(s, k) \o TitleFrom(s, k + 1)

Title(s) == TitleFrom(s, 1)

\* str.strip()
Strip(s) ==
    LET keep == {i \in 1..Len(s) : ~IsSpace(Char(s, i))}
    IN  IF keep = {} THEN ""
        ELSE SubSeq(s, CHOOSE a \in keep : \A b \in keep : a <= b,
                       CHOOSE a \in keep : \A b \in keep : a >= b)

\* str.strip(chars)
StripChars(s, chars) ==
    LET keep == {i \in 1..Len(s) : Char(s, i) \notin chars}
    IN  IF keep = {} THEN ""
        ELSE SubSeq(s, CHOOSE a \in keep : \A b \in keep : a <= b,
                       CHOOSE a \in keep : \A b \in keep : a >= b)

\* sub in s
Contains(sub, s) ==
    \E i \in 0..(Len(s) - Len(sub)) : SubSeq(s, i + 1, i + Len(sub)) = sub

RECURSIVE SplitOn(_, _)
\* str.split(sep) for a one-character sep
SplitOn(s, sep) ==
    LET at == {i \in 1..Len(s) : Char(s, i) = sep}
    IN  IF at = {} THEN <<s>>
        ELSE LET k == CHOOSE a \in at : \A b \in at : a <= b
             IN  <<SubSeq(s, 1, k - 1)>> \o SplitOn(SubSeq(s, k + 1, Len(s)), sep)

RECURSIVE Join(_, _)
\* sep.join(parts)
Join(parts, sep) ==
    IF Len(parts) = 0 THEN ""
    ELSE IF Len(parts) = 1 THEN parts[1]
    ELSE parts[1] \o sep \o Join(Tail(parts), sep)

RECURSIVE SplitWords(_)
\* str.split(): the maximal runs of non-whitespace characters
SplitWords(s) ==
    LET t == Strip(s)
        sp == {i \in 1..Len(t) : IsSpace(Char(t, i))}
    IN  IF t = "" THEN <<>>
        ELSE IF sp = {} THEN <<t>>
        ELSE LET k == CHOOSE a \in sp : \A b \in sp : a <= b
             IN  <<SubSeq(t, 1, k - 1)>> \o SplitWords(SubSeq(t, k + 1, Len(t)))

\* the length of the run of newlines that starts at position i
RECURSIVE NewlineRun(_, _)
NewlineRun(s, i) ==
    IF i <= Len(s) /\ Char(s, i) = "\n" THEN 1 + NewlineRun(s, i + 1) ELSE 0

\* the least run of newlines the pattern \n{3,} matches
MinNewlines == 3

RECURSIVE CollapseFrom(_, _)
CollapseFrom(s, i) ==
    IF i > Len(s) THEN ""
    ELSE LET r == NewlineRun(s, i)
         IN  IF r = 0 THEN Char(s, i) \o CollapseFrom(s, i + 1)
             ELSE IF r >= MinNewlines THEN "\n\n" \o CollapseFrom(s, i + r)
             ELSE SubSeq(s, i, i + r - 1) \o CollapseFrom(s, i + r)

\* a clean_text that leaves the runs of newlines as they are
CollapseNewlines_Skipped(s) == s

\* re.sub(r'\n{3,}', '\n\n', s)
CollapseNewlines(s) == CollapseFrom(s, 1)

----------------------------------------------------------------------------
(* LinkedInPostCleaner.clean_text *)

StripLines(lines) == [i \in 1..Len(lines) |-> Strip(lines[i])]

clean_text(text) ==
    IF text = "" THEN ""
    ELSE Strip(CollapseNewlines(Join(StripLines(SplitOn(text, "\n")), "\n")))

\* the characters of the raw texts given to clean_text
TextAlphabet == {"a", " ", "\n"}

RECURSIVE StringsOfLen(_)
StringsOfLen(n) ==
    IF n = 0 THEN {""}
    ELSE {s \o c : s \in StringsOfLen(n - 1), c \in TextAlphabet}

RawTexts == UNION {StringsOfLen(n) : n \in 0..MaxLen}

----------------------------------------------------------------------------
(* LinkedInPostCleaner: tag normalization *)

\* LinkedInPostCleaner.max_tags
max_tags == 15

\* an empty dict
EmptyDict == [k \in {} |-> ""]

\* dict[key] = value
DictSet(d, key, value) ==
    [k \in DOMAIN d \cup {key} |-> IF k = key THEN value ELSE d[k]]

\* merge_rules, in the order the dict literal declares them (a dict keeps that order)
merge_rules == <<
    [main_tag |-> "Financial Planning",
     synonyms |-> <<"Budgeting", "Budget", "Finance", "Money Management">>],
    [main_tag |-> "Investment",
     synonyms |-> <<"Investing", "Trading", "Portfolio", "Wealth">>],
    [main_tag |-> "Cryptocurrency",
     synonyms |-> <<"Crypto", "Bitcoin", "Ethereum", "Blockchain">>],
    [main_tag |-> "Career Development",
     synonyms |-> <<"Career Growth", "Professional Growth", "Job Search", "Career">>],
    [main_tag |-> "Entrepreneurship",
     synonyms |-> <<"Startup", "Business", "Entrepreneur">>],
    [main_tag |-> "Technology",
     synonyms |-> <<"Tech", "AI", "Software", "Digital">>],
    [main_tag |-> "Marketing",
     synonyms |-> <<"Branding", "Social Media", "Content Marketing">>],
    [main_tag |-> "Personal Growth",
     synonyms |-> <<"Self Development", "Learning", "Motivation">>],
    [main_tag |-> "Leadership",
     synonyms |-> <<"Management", "Team Building">>],
    [main_tag |-> "Networking",
     synonyms |-> <<"Professional Network", "Connections">>],
    [main_tag |-> "Industry Insights",
     synonyms |-> <<"Market Trends", "Analysis">>],
    [main_tag |-> "General",
     synonyms |-> <<"Pakistan", "Karachi", "Lahore", "Islamabad", "Location", "City">>] >>

\* the first test of the loop body: new_tag in synonyms or any(syn.lower() in new_tag.lower())
SynonymMatches(rule, new_tag) ==
    \/ new_tag \in Range(rule.synonyms)
    \/ \E k \in DOMAIN rule.synonyms : Contains(Lower(rule.synonyms[k]), Lower(new_tag))

\* the second test of the loop body
MainTagMatches(rule, new_tag) ==
    \/ Contains(Lower(rule.main_tag), Lower(new_tag))
    \/ Contains(Lower(new_tag), Lower(rule.main_tag))

\* both tests of one iteration return the iteration's main_tag
RuleMatches(rule, new_tag) == SynonymMatches(rule, new_tag) \/ MainTagMatches(rule, new_tag)

RECURSIVE FirstMatchFrom(_, _)
\* the loop over merge_rules.items(): the index of the first rule that returns, or 0
FirstMatchFrom(new_tag, k) ==
    IF k > Len(merge_rules) THEN 0
    ELSE IF RuleMatches(merge_rules[k], new_tag) THEN k
    ELSE FirstMatchFrom(new_tag, k + 1)

\* a loop over merge_rules in which the last rule that matches wins
FirstMatch_LastWins(new_tag) ==
    LET m == {k \in DOMAIN merge_rules : RuleMatches(merge_rules[k], new_tag)}
    IN  IF m = {} THEN 0 ELSE CHOOSE k \in m : \A j \in m : j <= k

FirstMatch(new_tag) == FirstMatchFrom(new_tag, 1)

\* set(s.lower().split())
WordsOf(s) == Range(SplitWords(Lower(s)))

\* main_categories of extract_tags_fallback
main_categories == <<
    [category |-> "Career Development",
     keywords |-> <<"job", "career", "interview", "resume", "hiring", "work", "employment">>],
    [category |-> "Entrepreneurship",
     keywords |-> <<"startup", "business", "entrepreneur", "company", "founder">>],
    [category |-> "Technology",
     keywords |-> <<"tech", "ai", "software", "coding", "digital", "development">>],
    [category |-> "Investment",
     keywords |-> <<"investment", "crypto", "trading", "portfolio", "wealth", "money">>],
    [category |-> "Marketing",
     keywords |-> <<"marketing", "brand", "content", "social", "advertising">>],
    [category |-> "Personal Growth",
     keywords |-> <<"growth", "learning", "motivation", "success", "development">>],
    [category |-> "Leadership",
     keywords |-> <<"leadership", "management", "team", "leader", "mentor">>],
    [category |-> "Networking",
     keywords |-> <<"network", "connection", "linkedin", "professional", "relationship">>],
    [category |-> "Education",
     keywords |-> <<"education", "learning", "skill", "training", "course">>],
    [category |-> "Healthcare",
     keywords |-> <<"health", "medical", "healthcare", "wellness", "fitness">>],
    [category |-> "Finance",
     keywords |-> <<"financial", "budget", "planning", "economy", "banking">>],
    [category |-> "Sales",
     keywords |-> <<"sales", "customer", "client", "revenue", "deal">>],
    [category |-> "Consulting",
     keywords |-> <<"consulting", "advice", "strategy", "solution", "expert">>],
    [category |-> "Innovation",
     keywords |-> <<"innovation", "creative", "idea", "solution", "breakthrough">>],
    [category |-> "Communication",
     keywords |-> <<"communication", "presentation", "speaking", "writing", "message">>] >>

\* what the classification call answers in the tag-discovery specification
LLMTags == {
    "Budget", "Technology", "Karachi",
    "Sales", "Education", "Healthcare", "Consulting", "Innovation", "Communication",
    "Data Science", "Data Analytics", "Productivity", "Recruitment", "Design",
    "Logistics", "Journalism" }

\* the cleaned texts classified in the tag-discovery specification
TagTexts == {"hello world", "i passed the course"}

\* what the classification call answers in the batch specification
BatchContents == {" budgeting ", "Budget", "Investment Tech", "Sales"}

\* the raw texts of the posts of the batch specification
BatchTexts == {"Got a new job", " woh ek\n\n\n\nplan tha ", " \n "}

\* every text and tag the specifications hand to the cleaner
KnownTexts == TagTexts \cup {clean_text(t) : t \in BatchTexts}
KnownContents == LLMTags \cup BatchContents
KnownTags ==
    KnownContents \cup {Strip(c) : c \in KnownContents}
        \cup {main_categories[k].category : k \in DOMAIN main_categories} \cup {"Business"}

\* the part of normalize_and_merge_tags that reads no state of the object: the
\* trimmed, title-cased tag and the rule that returns for it (0: none)
MergeOf(raw_tag) ==
    LET new_tag == Title(Strip(raw_tag))
    IN  [new_tag |-> new_tag, rule |-> FirstMatch(new_tag)]

\* MergeOf, tabulated once for the tags of the model
MergeTable == [raw_tag \in KnownTags |-> MergeOf(raw_tag)]

Merge(raw_tag) ==
    IF raw_tag \in DOMAIN MergeTable THEN MergeTable[raw_tag] ELSE MergeOf(raw_tag)

\* every tag normalize_and_merge_tags can return for the tags of the model
KnownResults ==
    {MergeTable[r].new_tag : r \in KnownTags}
        \cup {merge_rules[k].main_tag : k \in DOMAIN merge_rules} \cup {"General"}

\* WordsOf, tabulated once for the tags of the model
WordTable == [s \in KnownResults |-> WordsOf(s)]

WordSet(s) == IF s \in DOMAIN WordTable THEN WordTable[s] ELSE WordsOf(s)

generic_tags == <<"Business", "Technology", "Career Development", "Personal Growth">>

\* find_most_similar_existing_tag: the set of values the call can return. A set is
\* iterated in an order Python does not fix, so the first member with a common word,
\* and list(discovered_tags)[0], can each be any member that qualifies.
find_most_similar_existing_tag(new_tag, discovered) ==
    LET overlap == {e \in discovered : WordSet(new_tag) \cap WordSet(e) # {}}
        generic == {k \in DOMAIN generic_tags : generic_tags[k] \in discovered}
    IN  IF overlap # {} THEN overlap
        ELSE IF generic # {}
             THEN {generic_tags[CHOOSE k \in generic : \A j \in generic : k <= j]}
        ELSE IF discovered # {} THEN discovered
        ELSE {"General"}

\* an off-by-one limit test: len(self.discovered_tags) <= self.max_tags
BelowLimit_OffByOne(discovered) == Cardinality(discovered) <= max_tags

\* the test that keeps a new tag: len(self.discovered_tags) < self.max_tags
BelowLimit(discovered) == Cardinality(discovered) < max_tags

\* normalize_and_merge_tags: the outcomes of the call, each the returned tag and
\* tag_synonyms as the call leaves it
normalize_and_merge_tags(raw_tag, discovered, synonyms) ==
    LET new_tag == Merge(raw_tag).new_tag
        k == Merge(raw_tag).rule
    IN  IF k # 0
        THEN {[tag |-> merge_rules[k].main_tag,
               synonyms |-> DictSet(synonyms, new_tag, merge_rules[k].main_tag)]}
        ELSE IF BelowLimit(discovered)
        THEN {[tag |-> new_tag, synonyms |-> synonyms]}
        ELSE {[tag |-> t, synonyms |-> synonyms] :
                 t \in find_most_similar_existing_tag(new_tag, discovered)}

----------------------------------------------------------------------------
(* LinkedInPostCleaner.extract_tags_fallback *)

\* sum(1 for keyword in keywords if keyword in text_lower)
Score(keywords, text_lower) ==
    Cardinality({k \in DOMAIN keywords : Contains(keywords[k], text_lower)})

RECURSIVE BestMatchFrom(_, _, _, _)
\* the loop over main_categories.items(): a category replaces best_match only
\* when its score is strictly higher
BestMatchFrom(text_lower, k, best_match, max_score) ==
    IF k > Len(main_categories) THEN best_match
    ELSE LET score == Score(main_categories[k].keywords, text_lower)
         IN  IF score > max_score
             THEN BestMatchFrom(text_lower, k + 1, main_categories[k].category, score)
             ELSE BestMatchFrom(text_lower, k + 1, best_match, max_score)

\* best_match as extract_tags_fallback computes it, before normalization
BestMatchOf(text) == BestMatchFrom(Lower(text), 1, "Business", 0)

\* BestMatchOf, tabulated once for the texts of the model
BestMatchTable == [text \in KnownTexts |-> BestMatchOf(text)]

best_match_of(text) ==
    IF text \in DOMAIN BestMatchTable THEN BestMatchTable[text] ELSE BestMatchOf(text)

\* normalize the tag, add it to discovered_tags, return [normalized_tag]: the
\* outcomes, each the returned list and the two fields as the call leaves them
AddNormalized(raw_tag, discovered, synonyms) ==
    {[tags |-> <<out.tag>>,
      discovered |-> discovered \cup {out.tag},
      synonyms |-> out.synonyms,
      prints |-> <<>>,
      raised |-> FALSE] :
        out \in normalize_and_merge_tags(raw_tag, discovered, synonyms)}

\* extract_tags_fallback: the outcomes of the call
extract_tags_fallback(text, discovered, synonyms) ==
    AddNormalized(best_match_of(text), discovered, synonyms)

----------------------------------------------------------------------------
(* LinkedInPostCleaner.discover_tags_from_text *)

\* what self.client.chat.completions.create does: it answers a content, or raises
Answer(content) == [ok |-> TRUE, content |-> content]
Raises == [ok |-> FALSE, content |-> ""]

\* a discover_tags_from_text whose handler prints and raises again
discover_tags_from_text_Reraise(text, llm, discovered, synonyms) ==
    IF llm.ok
    THEN AddNormalized(Strip(llm.content), discovered, synonyms)
    ELSE {[tags |-> <<>>, discovered |-> discovered, synonyms |-> synonyms,
           prints |-> <<<<"Error discovering tags with Groq">>>>, raised |-> TRUE]}

\* a discover_tags_from_text that does not add the tag to discovered_tags
discover_tags_from_text_NoAdd(text, llm, discovered, synonyms) ==
    IF llm.ok
    THEN {[o EXCEPT !.discovered = discovered] :
            o \in AddNormalized(Strip(llm.content), discovered, synonyms)}
    ELSE {[o EXCEPT !.prints = <<<<"Error discovering tags with Groq">>>>] :
            o \in extract_tags_fallback(text, discovered, synonyms)}

\* discover_tags_from_text: the outcomes of the call
discover_tags_from_text(text, llm, discovered, synonyms) ==
    IF llm.ok
    THEN AddNormalized(Strip(llm.content), discovered, synonyms)
    ELSE {[o EXCEPT !.prints = <<<<"Error discovering tags with Groq">>>>] :
            o \in extract_tags_fallback(text, discovered, synonyms)}

----------------------------------------------------------------------------
(* LinkedInPostCleaner: the metrics of a post *)

\* the values of a parsed JSON document the model uses
JStr(s) == [type |-> "str", str |-> s]
JInt(n) == [type |-> "int", int |-> n]
JList(n) == [type |-> "list", len |-> n]       \* a list of n items
JDict(d) == [type |-> "dict", items |-> d]     \* d: a record, key |-> JSON value

\* bool(v)
Truthy(v) ==
    CASE v.type = "str" -> v.str # ""
      [] v.type = "int" -> v.int # 0
      [] v.type = "list" -> v.len # 0
      [] v.type = "dict" -> DOMAIN v.items # {}

\* len(v) raises TypeError for a value without a length
HasLen(v) == v.type \in {"str", "list", "dict"}
LenOf(v) ==
    CASE v.type = "str" -> Len(v.str)
      [] v.type = "list" -> v.len
      [] v.type = "dict" -> Cardinality(DOMAIN v.items)

\* one of the two blocks of calculate_engagement: the count it adds, or -1 when
\* len() raises
EngagementOf(post, key) ==
    IF key \in DOMAIN post /\ Truthy(post[key])
    THEN IF HasLen(post[key]) THEN LenOf(post[key]) ELSE -1
    ELSE 0

\* calculate_engagement: the sum, or -1 when it raises
calculate_engagement(post) ==
    LET r == EngagementOf(post, "reactions")
        c == EngagementOf(post, "comments")
    IN  IF r < 0 \/ c < 0 THEN -1 ELSE r + c

\* count_lines
count_lines(text) ==
    IF Strip(text) = "" THEN 0 ELSE Len(SplitOn(text, "\n"))

\* the pattern of U+0600..U+06FF: the texts of the model are ASCII, which has no
\* character of that block
ArabicBlock == {}

\* the words of the three \b(...)\b patterns of detect_language
urdu_words == <<
    "aur", "hai", "hain", "ke", "ki", "ko", "se", "me", "mein", "bhi", "nahi", "kya",
    "kaise", "kab", "kahan", "yeh", "woh", "main", "ap", "aap", "bhai", "sahab", "ji",
    "thora", "thore", "bht", "bhut", "bohot", "krna", "karna", "krte", "karte", "hoga",
    "hogi", "hoge", "wala", "wali", "vale",
    "paisa", "paise", "rupay", "rupee", "lakh", "crore", "insha", "mashaallah",
    "alhamdulillah" >>

\* \w for the characters of the model
IsWordChar(c) == IsAlpha(c) \/ c \in {"0", "1", "2", "3", "4", "5", "6", "7", "8", "9", "_"}

\* re.search(r'\b' + word + r'\b', s)
HasWord(word, s) ==
    \E i \in 0..(Len(s) - Len(word)) :
        /\ SubSeq(s, i + 1, i + Len(word)) = word
        /\ (i = 0 \/ ~IsWordChar(Char(s, i)))
        /\ (i + Len(word) = Len(s) \/ ~IsWordChar(Char(s, i + Len(word) + 1)))

\* detect_language
detect_language(text) ==
    LET text_lower == Lower(text)
    IN  IF \/ \E i \in 1..Len(text_lower) : Char(text_lower, i) \in ArabicBlock
           \/ \E k \in DOMAIN urdu_words : HasWord(urdu_words[k], text_lower)
        THEN "Urduish" ELSE "English"

\* the metrics of a cleaned text, tabulated once for the texts of the model
MetricsOf(cleaned_text) ==
    [line_count |-> count_lines(cleaned_text), language |-> detect_language(cleaned_text)]
MetricsTable == [t \in KnownTexts |-> MetricsOf(t)]
Metrics(cleaned_text) ==
    IF cleaned_text \in DOMAIN MetricsTable THEN MetricsTable[cleaned_text]
    ELSE MetricsOf(cleaned_text)

\* clean_text, tabulated once for the raw texts of the batch
CleanTable == [t \in BatchTexts |-> clean_text(t)]
Cleaned(text) == IF text \in DOMAIN CleanTable THEN CleanTable[text] ELSE clean_text(text)

----------------------------------------------------------------------------
(* LinkedInPostCleaner.process_single_post and process_posts *)

\* post_data.get('text', ''): post_data is a dict here
GetText(post) == IF "text" \in DOMAIN post THEN post.text ELSE JStr("")

\* how process_single_post ends for a post, up to the tag discovery: "raise" (an
\* exception leaves it), "none" (it returns None) or "post"
PostKind(post_data) ==
    IF post_data.type # "dict" THEN "raise"                 \* no .get on it
    ELSE LET raw_text == GetText(post_data.items)
         IN  IF ~Truthy(raw_text) THEN "none"               \* clean_text: if not text
             ELSE IF raw_text.type # "str" THEN "raise"     \* no .split on it
             ELSE IF Cleaned(raw_text.str) = "" THEN "none"
             ELSE IF calculate_engagement(post_data.items) < 0 THEN "raise"
             ELSE "post"

\* the `post` of an outcome that returns no post
NoPost == [text |-> "", engagement |-> 0, line_count |-> 0, language |-> "", tags |-> <<>>]

\* process_single_post: the outcomes of the call, each how it ends (kind: "raise",
\* "none" or "post"), the dict returned, the two fields as the call leaves them and
\* what it printed
process_single_post(post_data, llm, discovered, synonyms) ==
    IF PostKind(post_data) # "post"
    THEN {[kind |-> PostKind(post_data), post |-> NoPost, discovered |-> discovered,
           synonyms |-> synonyms, prints |-> <<>>]}
    ELSE LET cleaned_text == Cleaned(GetText(post_data.items).str)
         IN  {IF d.raised
              THEN [kind |-> "raise", post |-> NoPost, discovered |-> d.discovered,
                    synonyms |-> d.synonyms, prints |-> d.prints]
              ELSE [kind |-> "post",
                    post |-> [text |-> cleaned_text,
                              engagement |-> calculate_engagement(post_data.items),
                              line_count |-> Metrics(cleaned_text).line_count,
                              language |-> Metrics(cleaned_text).language,
                              tags |-> d.tags],
                    discovered |-> d.discovered,
                    synonyms |-> d.synonyms,
                    prints |-> d.prints] :
                 d \in discover_tags_from_text(cleaned_text, llm, discovered, synonyms)}

\* an exception in post i of n that ends the loop
AfterError_Abort(i, n) == n

\* where the loop of process_posts stands after an exception in post i of n: at
\* post i, going on to the next (continue)
AfterError(i, n) == i

\* one iteration of the loop of process_posts, for post i = visited + 1: the outcomes,
\* each the posts visited, the list collected, the two fields and what was printed
process_posts_step(posts, visited, collected, llm, discovered, synonyms) ==
    LET i == visited + 1
    IN  {[visited |-> IF o.kind = "raise" THEN AfterError(i, Len(posts)) ELSE i,
          collected |-> IF o.kind = "post" THEN Append(collected, o.post) ELSE collected,
          discovered |-> o.discovered,
          synonyms |-> o.synonyms,
          prints |-> <<<<"Processing post", i>>>> \o o.prints \o
                     (IF o.kind = "raise" THEN <<<<"Error processing post", i>>>>
                      ELSE IF o.kind = "none" THEN <<<<"Skipped post", i>>>>
                      ELSE <<>>)] :
            o \in process_single_post(posts[i], llm, discovered, synonyms)}

----------------------------------------------------------------------------
(* save_results *)

\* the characters tags are made of (space, digits, letters), in code-point order
AsciiChars == " 0123456789ABCDEFGHIJKLMNOPQRSTUVWXYZabcdefghijklmnopqrstuvwxyz"

\* the rank of a character in the order Python compares strings by
OrdTable ==
    [c \in {Char(AsciiChars, i) : i \in 1..Len(AsciiChars)} |->
        CHOOSE i \in 1..Len(AsciiChars) : Char(AsciiChars, i) = c]

RECURSIVE LessFrom(_, _, _)
\* a < b for strings that agree before position k
LessFrom(a, b, k) ==
    IF k > Len(a) THEN k <= Len(b)
    ELSE IF k > Len(b) THEN FALSE
    ELSE IF Char(a, k) = Char(b, k) THEN LessFrom(a, b, k + 1)
    ELSE OrdTable[Char(a, k)] < OrdTable[Char(b, k)]

\* a < b on Python strings
StrLess(a, b) == LessFrom(a, b, 1)

RECURSIVE Sorted(_)
\* sorted(list(S)) for a set of strings
Sorted(S) ==
    IF S = {} THEN <<>>
    ELSE LET least == CHOOSE x \in S : \A y \in S \ {x} : StrLess(x, y)
         IN  <<least>> \o Sorted(S \ {least})

\* seq[:n]
Prefix(seq, n) == SubSeq(seq, 1, IF Len(seq) < n THEN Len(seq) ELSE n)

\* the document before save_results has written one
NoOutput ==
    [posts |-> <<>>, discovered_tags |-> <<>>, tag_synonyms |-> EmptyDict,
     total_posts |-> 0, total_unique_tags |-> 0]

\* save_results: the document it dumps and what it prints
save_results(posts, discovered, synonyms) ==
    LET final_tags == Prefix(Sorted(discovered), max_tags)
    IN  [final_output |-> [posts |-> posts,
                           discovered_tags |-> final_tags,
                           tag_synonyms |-> synonyms,
                           total_posts |-> Len(posts),
                           total_unique_tags |-> Len(final_tags)],
         prints |-> <<<<"Results saved">>,
                      <<"Discovered", Len(final_tags), Len(posts)>>,
                      <<"Tags", final_tags>>>> \o
                    (IF DOMAIN synonyms # {} THEN <<<<"Merged tags", synonyms>>>>
                     ELSE <<>>)]

----------------------------------------------------------------------------
(* FewShotPosts (few_shots.py) *)

\* a categorize_length whose first threshold is off by one
categorize_length_OffByOne(line_count) ==
    IF line_count <= 5 THEN "Short"
    ELSE IF 5 <= line_count /\ line_count <= 10 THEN "Medium"
    ELSE "Long"

\* FewShotPosts.categorize_length
categorize_length(line_count) ==
    IF line_count < 5 THEN "Short"
    ELSE IF 5 <= line_count /\ line_count <= 10 THEN "Medium"
    ELSE "Long"

\* a row of df: the post's fields and the derived column
WithLength(post) ==
    [text |-> post.text, engagement |-> post.engagement, line_count |-> post.line_count,
     language |-> post.language, tags |-> post.tags,
     length |-> categorize_length(post.line_count)]

\* tag.strip('"').strip("'")
Unquoted(tag) == StripChars(StripChars(tag, {"\""}), {"'"})

\* load_posts: df and unique_tags as it leaves them
load_posts(posts) ==
    [df |-> [i \in 1..Len(posts) |-> WithLength(posts[i])],
     unique_tags |-> UNION {{Unquoted(posts[i].tags[k]) : k \in DOMAIN posts[i].tags} :
                               i \in DOMAIN posts}]

\* FewShotPosts.get_filtered_posts: the rows of the mask, as records in row order
get_filtered_posts(table, length, language, tag) ==
    SelectSeq(table, LAMBDA row : /\ tag \in Range(row.tags)
                                  /\ row.language = language
                                  /\ row.length = length)

----------------------------------------------------------------------------
(* post_generator.py *)

\* get_length_str; "None" is how the f-string of get_prompt renders the None the
\* function returns for any other length
get_length_str(length) ==
    IF length = "Short" THEN "1 to 5 lines"
    ELSE IF length = "Medium" THEN "6 to 10 lines"
    ELSE IF length = "Long" THEN "11 to 15 lines"
    ELSE "None"

\* the f-string that opens get_prompt, as the pieces it is made of: the literal text
\* (cut at line ends and around the names it spells out; the two dashes of the
\* source that are not ASCII are written --) and the values substituted
PromptTemplate(length_str, language, tag, tone, persona) ==
    <<
      "\n",
      "You are a professional content creator trained to write like ",
      persona,
      ", a popular influencer known for deep, relatable, and emotionally-driven storytelling on LinkedIn.\n",
      "\n",
      "== Objective ==\n",
      "Generate a new original LinkedIn post in the voice of ",
      persona,
      ", using the writing tone and rhythm consistent with the following inputs and examples. Do not output anything extra -- just the post text.\n",
      "\n",
      "== Inputs ==\n",
      "1) Topic: ",
      tag,
      "\n",
      "2) Post Length: ",
      length_str,
      "\n",
      "3) Language: ",
      language,
      "\n",
      "   - If \"Urduish\", write in Roman Urdu blended with English naturally.\n",
      "   - If \"English\", keep it clean, modern, and simple.\n",
      "\n",
      "== Style Guide (Critical) ==\n",
      "- Use the ",
      "**",
      "storytelling",
      "**",
      " tone. Start with a relatable hook or personal truth.\n",
      "- Write in a reflective, conversational style -- as if speaking to a friend.\n",
      "- Use **short sentences**, whitespace, and **line breaks** generously.\n",
      "- Avoid generic advice. Every sentence should **feel personal and grounded**.\n",
      "- Keep a **raw, human** voice. Emotion is more important than perfection.\n",
      "- No emojis. No hashtags.\n",
      "- You can use a line that ",
      "Hamza Bhatti",
      " used sometimes \"Dedo Mazo Ayo\"\n",
      "\n",
      "== Output ==\n",
      "- The final output must **look and feel like** it was written by ",
      persona,
      ".\n",
      "- Don't copy or reuse the example lines. Just use their style as inspiration.\n",
      "\n",
      "== Writing Examples ==\n",
      "(Below are 1-2 real examples of ",
      persona,
      "'s writing style. Match this tone.)\n"
    >>

\* a loop over the examples without the break
EmbeddedExamples_NoBreak(examples) == examples

\* the examples the loop of get_prompt reaches: it breaks after i == 1
EmbeddedExamples(examples) ==
    IF Len(examples) > 2 THEN SubSeq(examples, 1, 2) ELSE examples

RECURSIVE ExamplePieces(_, _)
\* prompt += f'\n\nExample {i+1}:\n\n{post["text"]}' for the first n examples
ExamplePieces(examples, n) ==
    IF n = 0 THEN <<>>
    ELSE ExamplePieces(examples, n - 1)
            \o <<"\n\nExample ", ToString(n), ":\n\n", examples[n].text>>

\* get_prompt, with few_shot.df as `table`
get_prompt(table, length, language, tag, tone, persona) ==
    LET examples == EmbeddedExamples(get_filtered_posts(table, length, language, tag))
    IN  PromptTemplate(get_length_str(length), language, tag, tone, persona)
            \o ExamplePieces(examples, Len(examples))

----------------------------------------------------------------------------
(* Specification of clean_text: a raw text is cleaned, then cleaned again *)

CleanerIdle ==
    /\ discovered_tags = {}
    /\ tag_synonyms = EmptyDict
    /\ posts_data = <<>>
    /\ idx = 0
    /\ processed_posts = <<>>
    /\ log = <<>>
    /\ final_output = NoOutput

NoQuery == [op |-> "none", length |-> "", language |-> "", tag |-> "", tone |-> "",
            persona |-> ""]

FewShotIdle ==
    /\ df = <<>>
    /\ unique_tags = {}
    /\ query = NoQuery
    /\ filtered = <<>>
    /\ prompt = <<>>

TextIdle ==
    /\ clean_in = ""
    /\ clean_out = <<>>

InitClean ==
    /\ CleanerIdle
    /\ FewShotIdle
    /\ pc = "clean"
    /\ clean_in \in RawTexts
    /\ clean_out = <<>>

\* clean_text(raw_text)
CleanText ==
    /\ pc = "clean"
    /\ clean_out = <<>>
    /\ clean_out' = <<clean_text(clean_in)>>
    /\ UNCHANGED <<cleaner_vars, fewshot_vars, pc, clean_in>>

\* clean_text applied to its own result
CleanAgain ==
    /\ pc = "clean"
    /\ Len(clean_out) = 1
    /\ clean_out' = Append(clean_out, clean_text(clean_out[1]))
    /\ UNCHANGED <<cleaner_vars, fewshot_vars, pc, clean_in>>

NextClean == CleanText \/ CleanAgain

SpecClean == InitClean /\ [][NextClean]_vars

----------------------------------------------------------------------------
(* Specification of tag discovery: any sequence of discoveries on one cleaner *)

InitTags ==
    /\ CleanerIdle
    /\ FewShotIdle
    /\ TextIdle
    /\ pc = "tags"

\* discover_tags_from_text(text) when the classification call answers `content`; the
\* text only enters the request, so one text stands for all
DiscoverTags(content) ==
    /\ pc = "tags"
    /\ \E o \in discover_tags_from_text("hello world", Answer(content),
                                        discovered_tags, tag_synonyms) :
          /\ discovered_tags' = o.discovered
          /\ tag_synonyms' = o.synonyms
    /\ UNCHANGED <<posts_data, idx, processed_posts, log, final_output, pc, text_vars,
                   fewshot_vars>>

\* extract_tags_fallback(text)
ExtractTagsFallback(text) ==
    /\ pc = "tags"
    /\ \E o \in extract_tags_fallback(text, discovered_tags, tag_synonyms) :
          /\ discovered_tags' = o.discovered
          /\ tag_synonyms' = o.synonyms
    /\ UNCHANGED <<posts_data, idx, processed_posts, log, final_output, pc, text_vars,
                   fewshot_vars>>

DiscoverAny == \E content \in LLMTags : DiscoverTags(content)
FallbackAny == \E text \in TagTexts : ExtractTagsFallback(text)

NextTags == DiscoverAny \/ FallbackAny

SpecTags == InitTags /\ [][NextTags]_vars

----------------------------------------------------------------------------
(* Specification of a batch run: process_posts over a list of raw posts *)

\* the raw posts of the model
PostPool == {
    JDict([text |-> JStr("Got a new job"), reactions |-> JList(3), comments |-> JList(2)]),
    JDict([text |-> JStr(" woh ek\n\n\n\nplan tha ")]),
    JDict([text |-> JStr(" \n "), reactions |-> JList(1)]),
    JDict([text |-> JStr("Got a new job"), reactions |-> JInt(7)]),
    JStr("oops") }

\* what the classification call can do for a post
LLMOutcomes == {Answer(c) : c \in BatchContents} \cup {Raises}

InitBatch ==
    /\ FewShotIdle
    /\ TextIdle
    /\ discovered_tags = {}
    /\ tag_synonyms = EmptyDict
    /\ posts_data \in UNION {[1..n -> PostPool] : n \in 0..MaxPosts}
    /\ idx = 0
    /\ processed_posts = <<>>
    /\ log = <<>>
    /\ final_output = NoOutput
    /\ pc = "batch"

\* one iteration of the loop of process_posts
ProcessNext ==
    /\ pc = "batch"
    /\ idx < Len(posts_data)
    /\ \E llm \in LLMOutcomes :
          \E o \in process_posts_step(posts_data, idx, processed_posts, llm,
                                      discovered_tags, tag_synonyms) :
              /\ idx' = o.visited
              /\ processed_posts' = o.collected
              /\ discovered_tags' = o.discovered
              /\ tag_synonyms' = o.synonyms
              /\ log' = log \o o.prints
    /\ UNCHANGED <<posts_data, final_output, pc, text_vars, fewshot_vars>>

\* return processed_posts
ReturnPosts ==
    /\ pc = "batch"
    /\ idx = Len(posts_data)
    /\ pc' = "done"
    /\ UNCHANGED <<cleaner_vars, text_vars, fewshot_vars>>

NextBatch == ProcessNext \/ ReturnPosts

SpecBatch == InitBatch /\ [][NextBatch]_vars

\* the texts of the posts collected so far
CollectedTexts == [k \in 1..Len(processed_posts) |-> processed_posts[k].text]

RECURSIVE ExpectedTexts(_)
\* the cleaned texts of those of the first n posts whose pipeline returns a post
ExpectedTexts(n) ==
    IF n = 0 THEN <<>>
    ELSE IF PostKind(posts_data[n]) = "post"
         THEN Append(ExpectedTexts(n - 1), Cleaned(GetText(posts_data[n].items).str))
         ELSE ExpectedTexts(n - 1)

\* C2: after every completed process_single_post call of a batch run, every processed
\* post carries exactly one tag, and that tag is a member of discovered_tags or a key
\* of tag_synonyms mapped to a member.
C2_AssignedTagsKnown ==
    \A k \in 1..Len(processed_posts) :
        LET tags == processed_posts[k].tags
        IN  /\ Len(tags) = 1
            /\ \/ tags[1] \in discovered_tags
               \/ /\ tags[1] \in DOMAIN tag_synonyms
                  /\ tag_synonyms[tags[1]] \in discovered_tags

\* two posts were processed, one tagged by a merge rule and one by a new tag
C2_Witness ==
    /\ Len(processed_posts) = 2
    /\ processed_posts[1].tags = <<"Sales">>
    /\ processed_posts[2].tags = <<"Financial Planning">>

\* C3: process_posts visits every post once, in input order, whatever happens to a
\* post; a post whose pipeline raises or whose cleaned text is empty contributes
\* nothing, and the list returned is the non-null results in input order.
C3_BatchNeverAborts ==
    /\ SelectSeq(log, LAMBDA e : e[1] = "Processing post")
           = [j \in 1..idx |-> <<"Processing post", j>>]
    /\ CollectedTexts = ExpectedTexts(idx)
    /\ pc = "done" => idx = Len(posts_data)

\* a batch has returned whose first post raised, whose second was empty and whose
\* third was processed
C3_Witness ==
    /\ pc = "done"
    /\ Len(posts_data) = 3
    /\ PostKind(posts_data[1]) = "raise"
    /\ PostKind(posts_data[2]) = "none"
    /\ PostKind(posts_data[3]) = "post"
    /\ Len(processed_posts) = 1

\* what the step printed
Printed == SubSeq(log', Len(log) + 1, Len(log'))

\* C4: a step in which the classification call raised (the handler of
\* discover_tags_from_text printed) does not fail the post: the post is appended with
\* exactly one tag, the keyword-fallback category passed through
\* normalize_and_merge_tags, and that tag is in discovered_tags afterwards.
C4_LLMFailureFallsBack ==
    [][(\E k \in 1..Len(Printed) : Printed[k] = <<"Error discovering tags with Groq">>) =>
          /\ \A k \in 1..Len(Printed) : Printed[k][1] # "Error processing post"
          /\ Len(processed_posts') = Len(processed_posts) + 1
          /\ LET post == processed_posts'[Len(processed_posts')]
             IN  /\ Len(post.tags) = 1
                 /\ post.tags[1] \in
                       {o.tag : o \in normalize_and_merge_tags(best_match_of(post.text),
                                                              discovered_tags, tag_synonyms)}
                 /\ post.tags[1] \in discovered_tags'
      ]_vars

\* the classification call raised for a post with no keyword: the post is in the list
\* with the default category "Business" merged into "Entrepreneurship"
C4_Witness ==
    /\ \E k \in 1..Len(log) : log[k] = <<"Error discovering tags with Groq">>
    /\ Len(processed_posts) = 1
    /\ processed_posts[1].tags = <<"Entrepreneurship">>
    /\ "Business" \in DOMAIN tag_synonyms

\* the trimmed, title-cased form of each answer of the classification call
TitledContent == [c \in KnownContents |-> Title(Strip(c))]

\* for each title-cased tag, the first rule in declared order that the tag equals a
\* synonym of, contains a synonym of, or whose canonical name it contains or is
\* contained in (case-insensitive); 0 when there is none
FirstRuleOf ==
    [t \in {Title(Strip(r)) : r \in KnownTags} |->
        LET m == {k \in DOMAIN merge_rules :
                    \/ t \in Range(merge_rules[k].synonyms)
                    \/ \E j \in DOMAIN merge_rules[k].synonyms :
                          Contains(Lower(merge_rules[k].synonyms[j]), Lower(t))
                    \/ Contains(Lower(merge_rules[k].main_tag), Lower(t))
                    \/ Contains(Lower(t), Lower(merge_rules[k].main_tag))}
        IN  IF m = {} THEN 0 ELSE CHOOSE k \in m : \A j \in m : k <= j]

\* C9: the merge rules are tried in declared order and the first that matches wins:
\* the call returns that rule's canonical tag and records raw -> canonical in
\* tag_synonyms; "Budgeting" and "Budget" both give "Financial Planning".
C9_FirstRuleWins ==
    /\ \A c \in BatchContents :
          \A out \in normalize_and_merge_tags(Strip(c), discovered_tags, tag_synonyms) :
              FirstRuleOf[TitledContent[c]] # 0 =>
                  /\ out.tag = merge_rules[FirstRuleOf[TitledContent[c]]].main_tag
                  /\ out.synonyms = DictSet(tag_synonyms, TitledContent[c], out.tag)
    /\ \A t \in DOMAIN tag_synonyms :
          /\ FirstRuleOf[t] # 0
          /\ tag_synonyms[t] = merge_rules[FirstRuleOf[t]].main_tag
    /\ \A c \in {" budgeting ", "Budget"} :
          \A out \in normalize_and_merge_tags(Strip(c), discovered_tags, tag_synonyms) :
              out.tag = "Financial Planning"
    /\ \A t \in {"Budgeting", "Budget"} \cap DOMAIN tag_synonyms :
          tag_synonyms[t] = "Financial Planning"

\* "Budgeting" and then "Budget" were answered for two posts
C9_Witness ==
    /\ Len(processed_posts) = 2
    /\ processed_posts[1].tags = <<"Financial Planning">>
    /\ processed_posts[2].tags = <<"Financial Planning">>
    /\ DOMAIN tag_synonyms = {"Budgeting", "Budget"}
    /\ discovered_tags = {"Financial Planning"}


----------------------------------------------------------------------------
(* Specification of a long batch run followed by save_results: main() *)

\* the most posts of the long batch
MaxFeed == 16

\* the most classification calls that raise during the long batch
MaxOutages == 1

\* what the classification call answers for the posts of the long batch, in order:
\* thirteen tags no merge rule matches, then three that merge
FeedAnswers ==
    <<"Sales", "Education", "Healthcare", "Consulting", "Innovation", "Communication",
      "Data Science", "Data Analytics", "Productivity", "Recruitment", "Design",
      "Logistics", "Journalism", "Budget", "Technology", "Karachi">>

\* the answer for post i; past the end the answers start over
FeedAnswer(i) == FeedAnswers[((i - 1) % Len(FeedAnswers)) + 1]

\* the raw post the long batch repeats
FeedPost ==
    JDict([text |-> JStr("Got a new job"), reactions |-> JList(3), comments |-> JList(2)])

\* how many classification calls have raised so far
Outages ==
    Cardinality({k \in DOMAIN log : log[k][1] = "Error discovering tags with Groq"})

\* what the classification call can do for post i of the long batch
FeedOutcomes(i) ==
    {Answer(FeedAnswer(i))} \cup (IF Outages < MaxOutages THEN {Raises} ELSE {})

\* cleaner = LinkedInPostCleaner(...); cleaner.process_posts(posts_data) begins
InitSave ==
    /\ FewShotIdle
    /\ TextIdle
    /\ discovered_tags = {}
    /\ tag_synonyms = EmptyDict
    /\ posts_data \in {[i \in 1..n |-> FeedPost] : n \in 0..MaxFeed}
    /\ idx = 0
    /\ processed_posts = <<>>
    /\ log = <<>>
    /\ final_output = NoOutput
    /\ pc = "batch"

\* one iteration of the loop of process_posts
ProcessFeed ==
    /\ pc = "batch"
    /\ idx < Len(posts_data)
    /\ \E llm \in FeedOutcomes(idx + 1) :
          \E o \in process_posts_step(posts_data, idx, processed_posts, llm,
                                      discovered_tags, tag_synonyms) :
              /\ idx' = o.visited
              /\ processed_posts' = o.collected
              /\ discovered_tags' = o.discovered
              /\ tag_synonyms' = o.synonyms
              /\ log' = log \o o.prints
    /\ UNCHANGED <<posts_data, final_output, pc, text_vars, fewshot_vars>>

\* cleaner.save_results(processed_posts, output_file)
SaveResults ==
    /\ pc = "done"
    /\ LET saved == save_results(processed_posts, discovered_tags, tag_synonyms)
       IN  /\ final_output' = saved.final_output
           /\ log' = log \o saved.prints
    /\ pc' = "saved"
    /\ UNCHANGED <<discovered_tags, tag_synonyms, posts_data, idx, processed_posts,
                   text_vars, fewshot_vars>>

NextSave == ProcessFeed \/ ReturnPosts \/ SaveResults

SpecSave == InitSave /\ [][NextSave]_vars

\* the tags of the posts of the written document
OutputPostTags ==
    UNION {Range(final_output.posts[i].tags) : i \in DOMAIN final_output.posts}

\* C11: in the document save_results writes after a batch run, every tag of an output
\* post is in the output discovered_tags list, the list is sorted and holds at most 15
\* entries, and total_unique_tags is its length.
C11_OutputTagsListed ==
    pc = "saved" =>
        LET tags == final_output.discovered_tags
        IN  /\ OutputPostTags \subseteq Range(tags)
            /\ \A i \in 1..(Len(tags) - 1) : StrLess(tags[i], tags[i + 1])
            /\ Len(tags) <= 15
            /\ final_output.total_unique_tags = Len(tags)

\* C12: in every state of a batch run, normalize_and_merge_tags returns every member
\* of discovered_tags as itself.
C12_AcceptedTagStable ==
    \A t \in discovered_tags :
        \A o \in normalize_and_merge_tags(t, discovered_tags, tag_synonyms) :
            o.tag = t

----------------------------------------------------------------------------
(* Specification of the few-shot corpus: a corpus is loaded, then one call is made *)

\* the stored posts of the model: line counts at the thresholds of the buckets
StoredPosts == {
    [text |-> "four lines", engagement |-> 5, line_count |-> 4,
     language |-> "English", tags |-> <<"Financial Planning">>],
    [text |-> "five lines", engagement |-> 0, line_count |-> 5,
     language |-> "English", tags |-> <<"Financial Planning">>],
    [text |-> "ten lines", engagement |-> 2, line_count |-> 10,
     language |-> "English", tags |-> <<"Financial Planning">>],
    [text |-> "eleven lines", engagement |-> 1, line_count |-> 11,
     language |-> "English", tags |-> <<"Financial Planning">>],
    [text |-> "paanch lines hain", engagement |-> 3, line_count |-> 5,
     language |-> "Urduish", tags |-> <<"Financial Planning">>],
    [text |-> "quoted tag", engagement |-> 0, line_count |-> 5,
     language |-> "English", tags |-> <<"'Financial Planning'">>] }

Lengths == {"Short", "Medium", "Long"}
Languages == {"English", "Urduish"}
\* "Productivity" is the tag of no stored post
QueryTags == {"Financial Planning", "Productivity"}
Tones == {"storytelling", "formal"}
Personas == {"Hamza Bhatti", "Jane Doe"}

\* FewShotPosts(file_path) on a file of at least one post
InitFewShot ==
    /\ CleanerIdle
    /\ TextIdle
    /\ \E posts \in UNION {[1..n -> StoredPosts] : n \in 1..MaxCorpus} :
          /\ df = load_posts(posts).df
          /\ unique_tags = load_posts(posts).unique_tags
    /\ query = NoQuery
    /\ filtered = <<>>
    /\ prompt = <<>>
    /\ pc = "loaded"

\* few_shot.get_filtered_posts(length, language, tag)
GetFilteredPosts(length, language, tag) ==
    /\ pc = "loaded"
    /\ query' = [op |-> "filter", length |-> length, language |-> language, tag |-> tag,
                 tone |-> "", persona |-> ""]
    /\ filtered' = get_filtered_posts(df, length, language, tag)
    /\ pc' = "returned"
    /\ UNCHANGED <<cleaner_vars, text_vars, df, unique_tags, prompt>>

\* get_prompt(length, language, tag, tone, persona)
GetPrompt(length, language, tag, tone, persona) ==
    /\ pc = "loaded"
    /\ query' = [op |-> "prompt", length |-> length, language |-> language, tag |-> tag,
                 tone |-> tone, persona |-> persona]
    /\ prompt' = get_prompt(df, length, language, tag, tone, persona)
    /\ pc' = "returned"
    /\ UNCHANGED <<cleaner_vars, text_vars, df, unique_tags, filtered>>

FilterAny ==
    \E length \in Lengths, language \in Languages, tag \in QueryTags :
        GetFilteredPosts(length, language, tag)

PromptAny ==
    \E length \in Lengths, language \in Languages, tag \in QueryTags,
       tone \in Tones, persona \in Personas :
        GetPrompt(length, language, tag, tone, persona)

NextFewShot == FilterAny \/ PromptAny

SpecFewShot == InitFewShot /\ [][NextFewShot]_vars

\* the bucket the claim derives from a line count
BucketIs(length, line_count) ==
    \/ length = "Short" /\ line_count < 5
    \/ length = "Medium" /\ 5 <= line_count /\ line_count <= 10
    \/ length = "Long" /\ line_count > 10

\* C5: get_filtered_posts returns exactly the records, in load order, whose length
\* bucket equals length (Short: line_count < 5, Medium: 5..10, Long: > 10), whose
\* language equals language and whose tags hold tag as an exact string; with no match
\* it returns an empty sequence.
C5_FilterExact ==
    (pc = "returned" /\ query.op = "filter") =>
        LET Matches(row) == /\ BucketIs(query.length, row.line_count)
                            /\ row.language = query.language
                            /\ \E k \in DOMAIN row.tags : row.tags[k] = query.tag
        IN  /\ filtered = SelectSeq(df, Matches)
            /\ (\A i \in DOMAIN df : ~Matches(df[i])) => filtered = <<>>

\* a filter over three posts with line counts 5, 11 and 10 returned the first and
\* the third
C5_Witness ==
    /\ pc = "returned"
    /\ query.op = "filter"
    /\ query.length = "Medium"
    /\ Len(df) = 3
    /\ df[1].line_count = 5 /\ df[2].line_count = 11 /\ df[3].line_count = 10
    /\ Len(filtered) = 2
    /\ filtered[1] = df[1] /\ filtered[2] = df[3]

\* the range the claim gives for a length
RangeOf(length) ==
    CASE length = "Short" -> "1 to 5 lines"
      [] length = "Medium" -> "6 to 10 lines"
      [] length = "Long" -> "11 to 15 lines"

\* the piece of the prompt that follows the piece `label`
After(label) == {prompt[k + 1] : k \in {j \in 1..(Len(prompt) - 1) : prompt[j] = label}}

\* C6: the prompt embeds exactly min(n, 2) examples, the first two of the filter
\* result in its order, each after its "Example N:" label; with n = 0 it still holds
\* the topic, the length range and the language, and no example.
C6_TwoExamples ==
    (pc = "returned" /\ query.op = "prompt") =>
        LET examples == get_filtered_posts(df, query.length, query.language, query.tag)
            m == IF Len(examples) < 2 THEN Len(examples) ELSE 2
            base == Len(prompt) - 4 * m
        IN  /\ Cardinality({k \in DOMAIN prompt : prompt[k] = "\n\nExample "}) = m
            /\ \A j \in 1..m :
                  SubSeq(prompt, base + 4 * j - 3, base + 4 * j)
                      = <<"\n\nExample ", ToString(j), ":\n\n", examples[j].text>>
            /\ After("1) Topic: ") = {query.tag}
            /\ After("2) Post Length: ") = {RangeOf(query.length)}
            /\ After("3) Language: ") = {query.language}

\* a prompt was built for a query that three posts match
C6_Witness ==
    /\ pc = "returned"
    /\ query.op = "prompt"
    /\ Len(get_filtered_posts(df, query.length, query.language, query.tag)) = 3
    /\ Cardinality({k \in DOMAIN prompt : prompt[k] = "\n\nExample "}) = 2

\* a prompt was built for a query that no post matches
C6_WitnessNone ==
    /\ pc = "returned"
    /\ query.op = "prompt"
    /\ query.tag = "Productivity"
    /\ Len(prompt) > 0
    /\ \A k \in DOMAIN prompt : prompt[k] # "\n\nExample "

\* C7: every place of the prompt that names the persona or the tone holds the value
\* the caller passed, and both are named.
C7_PersonaToneUsed ==
    (pc = "returned" /\ query.op = "prompt") =>
        /\ \A k \in DOMAIN prompt :
              /\ prompt[k] \in Personas => prompt[k] = query.persona
              /\ prompt[k] \in Tones => prompt[k] = query.tone
        /\ \E k \in DOMAIN prompt : prompt[k] = query.persona
        /\ \E k \in DOMAIN prompt : prompt[k] = query.tone

\* C1: in every state reached by any sequence of tag discoveries, discovered_tags
\* holds at most 15 members.
C1_TagLimit == Cardinality(discovered_tags) <= 15

\* the answers of the classification call that no merge rule matches
UnmatchedTags ==
    {raw \in LLMTags :
        \A k \in DOMAIN merge_rules : ~RuleMatches(merge_rules[k], Title(Strip(raw)))}

\* the members of discovered_tags that share a whitespace-delimited token with tag
Sharing(tag) == {e \in discovered_tags : WordSet(tag) \cap WordSet(e) # {}}

\* the generic tags that are members of discovered_tags, in their declared order
GenericMembers == SelectSeq(generic_tags, LAMBDA g : g \in discovered_tags)

\* C10: when no merge rule matches the raw tag, normalize_and_merge_tags returns the
\* title-cased raw tag while discovered_tags has fewer than 15 members; at capacity it
\* returns a member of discovered_tags (one sharing a token with the raw tag if there
\* is one, else the first generic tag that is a member, else some member), so adding
\* it does not grow the set; the literal "General" is returned only for an empty set.
C10_UnmatchedTag ==
    \A raw \in UnmatchedTags :
        \A out \in normalize_and_merge_tags(raw, discovered_tags, tag_synonyms) :
            /\ Cardinality(discovered_tags) < 15 => out.tag = TitledContent[raw]
            /\ Cardinality(discovered_tags) >= 15 =>
                  /\ out.tag \in discovered_tags
                  /\ discovered_tags \cup {out.tag} = discovered_tags
                  /\ Sharing(TitledContent[raw]) # {} => out.tag \in Sharing(TitledContent[raw])
                  /\ (Sharing(TitledContent[raw]) = {} /\ Len(GenericMembers) > 0)
                        => out.tag = GenericMembers[1]
            /\ (out.tag = "General" /\ "General" \notin discovered_tags)
                  => discovered_tags = {}

\* the set is at capacity with no generic tag in it, and an answer no rule matches
\* shares no token with any member
C10_Witness ==
    /\ Cardinality(discovered_tags) = 15
    /\ Len(GenericMembers) = 0
    /\ "Sales" \in UnmatchedTags
    /\ Sharing("Sales") = {}

\* the set is at capacity and an answer no rule matches shares a token with a member
\* other than itself
C10_WitnessSharing ==
    /\ Cardinality(discovered_tags) >= 15
    /\ "Data Science" \in UnmatchedTags
    /\ Sharing("Data Science") = {"Data Analytics"}

\* the set is at capacity with a generic tag in it
C10_WitnessGeneric ==
    /\ Cardinality(discovered_tags) >= 15
    /\ "Sales" \in UnmatchedTags
    /\ Sharing("Sales") = {}
    /\ Len(GenericMembers) > 0

RECURSIVE RunsFrom(_, _)
\* the lengths of the maximal runs of newlines of s from position i on, in order
RunsFrom(s, i) ==
    IF i > Len(s) THEN <<>>
    ELSE LET r == NewlineRun(s, i)
         IN  IF r = 0 THEN RunsFrom(s, i + 1) ELSE <<r>> \o RunsFrom(s, i + r)

\* the input with each line trimmed, rejoined, and trimmed as a whole
Trimmed(text) == Strip(Join(StripLines(SplitOn(text, "\n")), "\n"))

\* C8: clean_text is idempotent; every run of three or more newlines of the trimmed
\* lines is collapsed to exactly two and shorter runs are kept, so the result never
\* holds three newlines in a row.
C8_CleanIdempotent ==
    /\ Len(clean_out) = 2 => clean_out[2] = clean_out[1]
    /\ \A k \in 1..Len(clean_out) : ~Contains("\n\n\n", clean_out[k])
    /\ Len(clean_out) >= 1 =>
          LET before == RunsFrom(Trimmed(clean_in), 1)
              after == RunsFrom(clean_out[1], 1)
          IN  /\ Len(after) = Len(before)
              /\ \A k \in DOMAIN before :
                    after[k] = IF before[k] >= 3 THEN 2 ELSE before[k]

\* a text with a blank-but-not-empty line inside a run of newlines has been cleaned twice
C8_Witness ==
    /\ Len(clean_out) = 2
    /\ clean_in = "a\n \n\na"
    /\ clean_out[1] = "a\n\na"

====
